---- MODULE Spec2Model ----
(***************************************************************************)
(* Rule 111 scanner (src/app/app.py): OPEN DATASET statements without an   *)
(* explicit MODE / ENCODING.  Text is a TLA+ string; offsets are Python's  *)
(* 0-based offsets, slices are Python's half-open slices.  The regular     *)
(* expressions are evaluated character by character.                       *)
(***************************************************************************)
EXTENDS Integers, Sequences, FiniteSets, TLC

(***************************************************************************)
(* Bounds of the explored inputs.                                          *)
(***************************************************************************)
MaxLeadLines == 1
MaxStmts == 2
MaxUnits == 3
MaxRequests == 2

(***************************************************************************)
(* Python values.  An Optional[T] is <<>> (None) or <<v>>.                 *)
(***************************************************************************)
None == <<>>
Some(v) == <<v>>

\* text[i] for a 0-based offset i
CharAt(text, i) == SubSeq(text, i + 1, i + 1)
\* text[a:b]
Slice(text, a, b) == SubSeq(text, a + 1, b)

UpperLetters == "ABCDEFGHIJKLMNOPQRSTUVWXYZ"
LowerLetters == "abcdefghijklmnopqrstuvwxyz"
DigitsUnderscore == "0123456789_"
CharsOf(s) == {SubSeq(s, i, i) : i \in 1..Len(s)}

\* \w of the re module: letters, digits, underscore
WordChars == CharsOf(UpperLetters) \cup CharsOf(LowerLetters) \cup CharsOf(DigitsUnderscore)
IsWordChar(c) == c \in WordChars
\* \s of the re module (the whitespace characters the inputs use)
SpaceChars == {" ", "\n", "\t"}
IsSpace(c) == c \in SpaceChars

\* (?i): a letter matches in either case
UpperOf == [c \in CharsOf(LowerLetters) |->
              SubSeq(UpperLetters,
                     CHOOSE i \in 1..26 : SubSeq(LowerLetters, i, i) = c,
                     CHOOSE i \in 1..26 : SubSeq(LowerLetters, i, i) = c)]
Fold(c) == IF c \in DOMAIN UpperOf THEN UpperOf[c] ELSE c

\* the literal `word` (given in upper case) matches text at offset i, ignoring case
LitAt(text, i, word) ==
    /\ i >= 0
    /\ i + Len(word) <= Len(text)
    /\ \A k \in 1..Len(word) : Fold(CharAt(text, i + k - 1)) = SubSeq(word, k, k)

\* \b at offset i of text
WordBoundary(text, i) ==
    LET before == i > 0 /\ IsWordChar(CharAt(text, i - 1))
        after  == i < Len(text) /\ IsWordChar(CharAt(text, i))
    IN  before # after

\* end of the greedy whitespace run starting at offset i (i itself when there is none)
SpaceRunEnd(text, i) ==
    CHOOSE j \in i..Len(text) :
        /\ \A k \in i..(j - 1) : IsSpace(CharAt(text, k))
        /\ (j = Len(text) \/ ~IsSpace(CharAt(text, j)))

\* \s+ at offset i: the offset after the run, or -1
SpacesAt(text, i) ==
    IF i < Len(text) /\ IsSpace(CharAt(text, i)) THEN SpaceRunEnd(text, i) ELSE -1

\* text.find(ch, from): lowest offset >= from holding ch, or -1
Find(text, ch, from) ==
    IF \E j \in from..(Len(text) - 1) : CharAt(text, j) = ch
    THEN CHOOSE j \in from..(Len(text) - 1) :
            /\ CharAt(text, j) = ch
            /\ \A k \in from..(j - 1) : CharAt(text, k) # ch
    ELSE -1

\* text.rfind(ch, 0, to): highest offset < to holding ch, or -1
RFind(text, ch, to) ==
    IF \E j \in 0..(to - 1) : CharAt(text, j) = ch
    THEN CHOOSE j \in 0..(to - 1) :
            /\ CharAt(text, j) = ch
            /\ \A k \in (j + 1)..(to - 1) : CharAt(text, k) # ch
    ELSE -1

\* text.count("\n")
CountNewlines(text) == Cardinality({j \in 0..(Len(text) - 1) : CharAt(text, j) = "\n"})

(***************************************************************************)
(* The four patterns (app.py lines 63-66).  X_match(text, i) is the offset *)
(* after the match of pattern X anchored at offset i, or -1.  Every        *)
(* quantifier of the patterns is followed by a character outside its own   *)
(* class, so the greedy run is the only candidate a backtracking matcher   *)
(* can succeed with.                                                       *)
(***************************************************************************)
NoMatch == [start |-> -1, end |-> -1]

\* STMT_RE with .* for [^.]*: the statement runs to the last period
STMT_RE_match_Greedy(text, i) ==
    IF WordBoundary(text, i) /\ LitAt(text, i, "OPEN")
    THEN LET j == SpacesAt(text, i + 4)
         IN  IF j # -1 /\ LitAt(text, j, "DATASET") /\ WordBoundary(text, j + 7)
                /\ Find(text, ".", j + 7) # -1
             THEN 1 + CHOOSE p \in (j + 7)..(Len(text) - 1) :
                          /\ CharAt(text, p) = "."
                          /\ \A k \in (p + 1)..(Len(text) - 1) : CharAt(text, k) # "."
             ELSE -1
    ELSE -1

\* STMT_RE with \s* for \s+
STMT_RE_match_OptionalSpace(text, i) ==
    IF WordBoundary(text, i) /\ LitAt(text, i, "OPEN")
    THEN LET j == SpaceRunEnd(text, i + 4)
         IN  IF LitAt(text, j, "DATASET") /\ WordBoundary(text, j + 7)
             THEN LET p == Find(text, ".", j + 7)
                  IN  IF p = -1 THEN -1 ELSE p + 1
             ELSE -1
    ELSE -1

\* (?is)\bOPEN\s+DATASET\b[^.]*\.
STMT_RE_match(text, i) ==
    IF WordBoundary(text, i) /\ LitAt(text, i, "OPEN")
    THEN LET j == SpacesAt(text, i + 4)
         IN  IF j # -1 /\ LitAt(text, j, "DATASET") /\ WordBoundary(text, j + 7)
             THEN LET p == Find(text, ".", j + 7)
                  IN  IF p = -1 THEN -1 ELSE p + 1
             ELSE -1
    ELSE -1

\* the next match of STMT_RE.finditer(text) when the scan stands at offset pos
STMT_RE_next(text, pos) ==
    IF \E i \in pos..(Len(text) - 1) : STMT_RE_match(text, i) # -1
    THEN LET i == CHOOSE i \in pos..(Len(text) - 1) :
                    /\ STMT_RE_match(text, i) # -1
                    /\ \A k \in pos..(i - 1) : STMT_RE_match(text, k) = -1
         IN  [start |-> i, end |-> STMT_RE_match(text, i)]
    ELSE NoMatch

\* (?i)\bIN\s+(TEXT|BINARY)\s+MODE\b
MODE_RE_match(text, i) ==
    IF WordBoundary(text, i) /\ LitAt(text, i, "IN")
    THEN LET j == SpacesAt(text, i + 2)
             k == IF j = -1 THEN -1
                  ELSE IF LitAt(text, j, "TEXT") THEN j + 4
                  ELSE IF LitAt(text, j, "BINARY") THEN j + 6
                  ELSE -1
             l == IF k = -1 THEN -1 ELSE SpacesAt(text, k)
         IN  IF l # -1 /\ LitAt(text, l, "MODE") /\ WordBoundary(text, l + 4)
             THEN l + 4
             ELSE -1
    ELSE -1

\* (?i)\bIN\s+TEXT\s+MODE\b
TEXT_MODE_RE_match(text, i) ==
    IF WordBoundary(text, i) /\ LitAt(text, i, "IN")
    THEN LET j == SpacesAt(text, i + 2)
             k == IF j # -1 /\ LitAt(text, j, "TEXT") THEN j + 4 ELSE -1
             l == IF k = -1 THEN -1 ELSE SpacesAt(text, k)
         IN  IF l # -1 /\ LitAt(text, l, "MODE") /\ WordBoundary(text, l + 4)
             THEN l + 4
             ELSE -1
    ELSE -1

\* (?i)\bENCODING\b\s+\S+
ENCODING_RE_match(text, i) ==
    IF WordBoundary(text, i) /\ LitAt(text, i, "ENCODING") /\ WordBoundary(text, i + 8)
    THEN LET j == SpacesAt(text, i + 8)
         IN  IF j # -1 /\ j < Len(text)
             THEN CHOOSE e \in (j + 1)..Len(text) :
                     /\ \A k \in j..(e - 1) : ~IsSpace(CharAt(text, k))
                     /\ (e = Len(text) \/ IsSpace(CharAt(text, e)))
             ELSE -1
    ELSE -1

\* X.search(stmt) is not None
MODE_RE_search(stmt) == \E i \in 0..(Len(stmt) - 1) : MODE_RE_match(stmt, i) # -1
TEXT_MODE_RE_search(stmt) == \E i \in 0..(Len(stmt) - 1) : TEXT_MODE_RE_match(stmt, i) # -1
ENCODING_RE_search(stmt) == \E i \in 0..(Len(stmt) - 1) : ENCODING_RE_match(stmt, i) # -1

(***************************************************************************)
(* Helpers of scan_unit.                                                   *)
(***************************************************************************)
\* get_line_snippet searching the line end from the match start
get_line_snippet_FromStart(text, start, end) ==
    LET r == RFind(text, "\n", start)
        line_start == IF r = -1 THEN 0 ELSE r + 1
        f == Find(text, "\n", start)
        line_end == IF f = -1 THEN Len(text) ELSE f
    IN  Slice(text, line_start, line_end)

\* get_line_snippet(text, start, end), app.py lines 42-57
get_line_snippet(text, start, end) ==
    LET r == RFind(text, "\n", start)
        line_start == IF r = -1 THEN 0 ELSE r + 1
        f == Find(text, "\n", end)
        line_end == IF f = -1 THEN Len(text) ELSE f
    IN  Slice(text, line_start, line_end)

\* s.replace("\n", "\\n")
RECURSIVE EscapeNewlines(_)
EscapeNewlines(s) ==
    IF Len(s) = 0 THEN ""
    ELSE (IF SubSeq(s, 1, 1) = "\n" THEN "\\n" ELSE SubSeq(s, 1, 1))
         \o EscapeNewlines(SubSeq(s, 2, Len(s)))

\* unit.code or ""
CodeOf(unit) == IF unit.code = None THEN "" ELSE unit.code[1]
\* unit.start_line or 0
BaseStartOf(unit) == IF unit.start_line = None THEN 0 ELSE unit.start_line[1]

\* has_mode with a pattern that knows TEXT only
has_mode_TextOnly(stmt) == TEXT_MODE_RE_search(stmt)
has_mode(stmt) == MODE_RE_search(stmt)
is_text_mode(stmt) == TEXT_MODE_RE_search(stmt)
\* has_encoding with the pattern cut to \bENCODING\b
has_encoding_KeywordOnly(stmt) ==
    \E i \in 0..(Len(stmt) - 1) :
        WordBoundary(stmt, i) /\ LitAt(stmt, i, "ENCODING") /\ WordBoundary(stmt, i + 8)
has_encoding(stmt) == ENCODING_RE_search(stmt)

\* line_in_block counted from 0
line_in_block_ZeroBased(text, stmt_start_) == CountNewlines(Slice(text, 0, stmt_start_))
line_in_block(text, stmt_start_) == CountNewlines(Slice(text, 0, stmt_start_)) + 1
snippet_line_count(snippet_line) == CountNewlines(snippet_line) + 1
starting_line_abs(base, text, stmt_start_) == base + line_in_block(text, stmt_start_)
ending_line_abs(base, text, stmt_start_, snippet_line) ==
    base + line_in_block(text, stmt_start_) + snippet_line_count(snippet_line)

NoModeMessage == "OPEN DATASET without MODE. Specify IN TEXT MODE or IN BINARY MODE and, for text, an explicit ENCODING."
NoModeSuggestion == "OPEN DATASET lv_file FOR OUTPUT IN TEXT MODE ENCODING UTF-8.\n* or *\nOPEN DATASET lv_file FOR INPUT IN BINARY MODE."
TextNoEncodingMessage == "OPEN DATASET in TEXT MODE without explicit ENCODING."
TextNoEncodingSuggestion == "Add ENCODING UTF-8 (or the required code page)."

\* Finding(...) as built at lines 105-117 and 128-140
Finding(unit, base, text, m, kind, msg, sug) ==
    LET snippet_line == get_line_snippet(text, m.start, m.end)
    IN  [prog_name     |-> unit.pgm_name,
         incl_name     |-> unit.inc_name,
         types         |-> unit.type,
         blockname     |-> unit.name,
         starting_line |-> starting_line_abs(base, text, m.start),
         ending_line   |-> ending_line_abs(base, text, m.start, snippet_line),
         issues_type   |-> kind,
         severity      |-> "error",
         message       |-> msg,
         suggestion    |-> sug,
         snippet       |-> EscapeNewlines(snippet_line)]

\* StmtFindings with the second check run for every statement and on the
\* encoding alone
StmtFindings_NoShortCircuit(unit, base, text, m) ==
    LET stmt == Slice(text, m.start, m.end)
    IN  (IF ~has_mode(stmt)
         THEN <<Finding(unit, base, text, m, "OpenDatasetNoMode",
                        NoModeMessage, NoModeSuggestion)>>
         ELSE <<>>)
        \o (IF ~has_encoding(stmt)
            THEN <<Finding(unit, base, text, m, "OpenDatasetTextNoEncoding",
                           TextNoEncodingMessage, TextNoEncodingSuggestion)>>
            ELSE <<>>)

\* the findings one iteration of the loop appends for the match m (lines 76-141)
StmtFindings(unit, base, text, m) ==
    LET stmt == Slice(text, m.start, m.end)
    IN  IF ~has_mode(stmt)
        THEN <<Finding(unit, base, text, m, "OpenDatasetNoMode",
                       NoModeMessage, NoModeSuggestion)>>
        ELSE IF is_text_mode(stmt) /\ ~has_encoding(stmt)
        THEN <<Finding(unit, base, text, m, "OpenDatasetTextNoEncoding",
                       TextNoEncodingMessage, TextNoEncodingSuggestion)>>
        ELSE <<>>

(***************************************************************************)
(* Requests.  A single-unit request carries one unit whose code is a run   *)
(* of lead lines, a first statement and a run of following pieces; an      *)
(* array request carries up to MaxUnits units.                             *)
(***************************************************************************)
Openers == {"OPEN DATASET", "open dataset", "Open\n\tDataSet",
            "XOPEN DATASET", "OPEN DATASETS", "OPENDATASET"}
Operands == {"F", "", "a.b", "IN TEXT MODE"}
ModeClauses == {"", " IN TEXT MODE", " IN BINARY MODE", " in text\nmode", " IN TEXT MODES"}
EncodingClauses == {"", " ENCODING UTF-8", " ENCODING", " encoding\n"}
OtherTexts == {"", "x = 1.", "DATASET OPEN F.", "OPEN DATASET F", "OPEN DATASET F IN TEXT MODE",
               "OPEN DATASET F. open dataset K. OPEN DATASET L"}
\* operands and clause tails of whole-statement units
LongOperands == {"lv_file FOR INPUT", "'f' ENCODING", "OPEN DATASET G", "IN\nBINARY MODE"}
CleanTails == {" IN BINARY MODE.", " IN TEXT MODE ENCODING UTF-8."}

FirstStmts ==
    {o \o " F." : o \in Openers}
    \cup {o \o " F IN TEXT MODE." : o \in Openers}
    \cup {"OPEN DATASET " \o x \o m \o e \o "." :
            x \in Operands, m \in ModeClauses, e \in EncodingClauses}
    \cup {"OPEN DATASET " \o x \o t : x \in LongOperands, t \in CleanTails}
    \cup OtherTexts

LeadLine == "A.\n"
FollowPieces == {"\n", "\nopen dataset G.", " OPEN DATASET H IN TEXT MODE.\n"}

RECURSIVE Repeat(_, _)
Repeat(s, n) == IF n = 0 THEN "" ELSE s \o Repeat(s, n - 1)

RECURSIVE Follows(_)
Follows(n) == IF n = 0 THEN {""}
              ELSE Follows(n - 1) \cup {t \o f : t \in Follows(n - 1), f \in FollowPieces}

SingleCodes ==
    {None} \cup {Some(Repeat(LeadLine, l) \o s \o t) :
                    l \in 0..MaxLeadLines, s \in FirstStmts, t \in Follows(MaxStmts - 1)}

ArrayCodes == {"OPEN DATASET F IN BINARY MODE.", "OPEN DATASET F.", "x = 1.",
               "OPEN DATASET F IN TEXT MODE.\nOPEN DATASET G."}

\* Unit(...), app.py lines 28-36
Unit(name, start_line, code) ==
    [pgm_name |-> "ZPROG", inc_name |-> "ZINCL", type |-> "FORM", name |-> Some(name),
     start_line |-> start_line, end_line |-> Some(0), code |-> code, findings |-> None]

SingleRequests ==
    {<<Unit("MAIN", Some(10), c)>> : c \in SingleCodes}
    \cup {<<Unit("MAIN", sl, Some(s))>> : sl \in {None, Some(0)}, s \in FirstStmts}

ArrayRequests ==
    UNION {{[i \in 1..n |-> Unit("B" \o ToString(i), Some(10), Some(cs[i]))] :
              cs \in [1..n -> ArrayCodes]} : n \in 0..MaxUnits}

(***************************************************************************)
(* State.  heap holds the Unit objects, an object being its index; units   *)
(* is the request body (objects), response the response body.  unit, src,  *)
(* findings, base_start, stmt_start and stmt_end are scan_unit's locals,    *)
(* pos the offset finditer stands at; idx, res and results are the array   *)
(* handler's loop position and locals.                                     *)
(***************************************************************************)
VARIABLES heap, endpoint, units, nreq, pc, idx, unit, src, findings, base_start,
          pos, stmt_start, stmt_end, res, results, response

vars == <<heap, endpoint, units, nreq, pc, idx, unit, src, findings, base_start,
          pos, stmt_start, stmt_end, res, results, response>>

scan_locals == <<unit, src, findings, base_start, pos, stmt_start, stmt_end>>

Init ==
    /\ \/ endpoint = "single" /\ heap \in SingleRequests
       \/ endpoint = "array" /\ heap \in ArrayRequests
    /\ units = [i \in 1..Len(heap) |-> i]
    /\ nreq = 1
    /\ pc = "handler"
    /\ idx = 1
    /\ unit = 0
    /\ src = ""
    /\ findings = <<>>
    /\ base_start = 0
    /\ pos = 0
    /\ stmt_start = 0
    /\ stmt_end = 0
    /\ res = 0
    /\ results = <<>>
    /\ response = None

\* scan_unit entered with the findings list taken over from the unit
ScanEnter_Accumulate(u) ==
    /\ unit' = u
    /\ src' = CodeOf(heap[u])
    /\ findings' = IF heap[u].findings = None THEN <<>> ELSE heap[u].findings[1]
    /\ base_start' = BaseStartOf(heap[u])
    /\ pos' = 0
    /\ stmt_start' = 0
    /\ stmt_end' = 0
    /\ pc' = "loop"

\* scan_unit(u) is entered: lines 69-73
ScanEnter(u) ==
    /\ unit' = u
    /\ src' = CodeOf(heap[u])
    /\ findings' = <<>>
    /\ base_start' = BaseStartOf(heap[u])
    /\ pos' = 0
    /\ stmt_start' = 0
    /\ stmt_end' = 0
    /\ pc' = "loop"

\* scan_rule111_single calls scan_unit(unit): line 163
SingleCall ==
    /\ pc = "handler"
    /\ endpoint = "single"
    /\ ScanEnter(units[1])
    /\ UNCHANGED <<heap, endpoint, units, nreq, idx, res, results, response>>

\* scan_rule111_array takes the next u of units and calls scan_unit(u): lines 154-155
ArrayCall ==
    /\ pc = "handler"
    /\ endpoint = "array"
    /\ idx <= Len(units)
    /\ ScanEnter(units[idx])
    /\ UNCHANGED <<heap, endpoint, units, nreq, idx, res, results, response>>

\* one iteration of `for m in STMT_RE.finditer(src)`: lines 75-141
ScanStmt ==
    /\ pc = "loop"
    /\ LET m == STMT_RE_next(src, pos)
       IN  /\ m # NoMatch
           /\ stmt_start' = m.start
           /\ stmt_end' = m.end
           /\ pos' = m.end
           /\ findings' = findings \o StmtFindings(heap[unit], base_start, src, m)
    /\ UNCHANGED <<heap, endpoint, units, nreq, pc, idx, unit, src, base_start,
                   res, results, response>>

\* out_unit = unit: the findings are set on the caller's object
OutUnit_InPlace(h, u, fs) ==
    [heap |-> [h EXCEPT ![u].findings = Some(fs)], out_unit |-> u]

\* out_unit = Unit(**unit.model_dump()); out_unit.findings = findings: lines 143-144
OutUnit(h, u, fs) ==
    [heap |-> Append(h, [h[u] EXCEPT !.findings = Some(fs)]), out_unit |-> Len(h) + 1]

\* the iterator is exhausted; scan_unit builds and returns out_unit: lines 143-145
ScanReturn ==
    /\ pc = "loop"
    /\ STMT_RE_next(src, pos) = NoMatch
    /\ heap' = OutUnit(heap, unit, findings).heap
    /\ res' = OutUnit(heap, unit, findings).out_unit
    /\ pc' = "returned"
    /\ UNCHANGED <<endpoint, units, nreq, idx, results, response>>
    /\ UNCHANGED scan_locals

\* `if res.findings is not None`
Truthy_NotNone(fs) == fs # None

\* `if res.findings`
Truthy(fs) == fs # None /\ fs[1] # <<>>

\* if res.findings: results.append(res): lines 156-157
Collect(rs, r, fs) == IF Truthy(fs) THEN Append(rs, r) ELSE rs

ArrayCollect ==
    /\ pc = "returned"
    /\ endpoint = "array"
    /\ results' = Collect(results, res, heap[res].findings)
    /\ idx' = idx + 1
    /\ pc' = "handler"
    /\ UNCHANGED <<heap, endpoint, units, nreq, res, response>>
    /\ UNCHANGED scan_locals

\* return results: line 158
ArrayReturn ==
    /\ pc = "handler"
    /\ endpoint = "array"
    /\ idx > Len(units)
    /\ response' = Some(results)
    /\ pc' = "done"
    /\ UNCHANGED <<heap, endpoint, units, nreq, idx, res, results>>
    /\ UNCHANGED scan_locals

\* return scan_unit(unit): line 163
SingleReturn ==
    /\ pc = "returned"
    /\ endpoint = "single"
    /\ response' = Some(<<res>>)
    /\ pc' = "done"
    /\ UNCHANGED <<heap, endpoint, units, nreq, idx, res, results>>
    /\ UNCHANGED scan_locals

\* the caller posts the unit it was returned as the next request to /remediate
Resubmit ==
    /\ pc = "done"
    /\ endpoint = "single"
    /\ nreq < MaxRequests
    /\ nreq' = nreq + 1
    /\ units' = response[1]
    /\ response' = None
    /\ pc' = "handler"
    /\ UNCHANGED <<heap, endpoint, idx, res, results>>
    /\ UNCHANGED scan_locals

Next ==
    \/ SingleCall
    \/ ArrayCall
    \/ ScanStmt
    \/ ScanReturn
    \/ ArrayCollect
    \/ ArrayReturn
    \/ SingleReturn
    \/ Resubmit

Spec == Init /\ [][Next]_vars

(***************************************************************************)
(* Vocabulary of the properties: clauses and phrases stated by position,   *)
(* not by the scan that finds them.                                        *)
(***************************************************************************)
\* text[a:b] is a nonempty run of whitespace
AllSpaces(text, a, b) == a < b /\ \A k \in a..(b - 1) : IsSpace(CharAt(text, k))

\* the words w1 w2 w3, whitespace between them, as whole words from offset i
Phrase3At(text, i, w1, w2, w3) ==
    /\ WordBoundary(text, i)
    /\ LitAt(text, i, w1)
    /\ \E a \in (i + Len(w1) + 1)..Len(text) :
          /\ AllSpaces(text, i + Len(w1), a)
          /\ LitAt(text, a, w2)
          /\ \E b \in (a + Len(w2) + 1)..Len(text) :
                /\ AllSpaces(text, a + Len(w2), b)
                /\ LitAt(text, b, w3)
                /\ WordBoundary(text, b + Len(w3))

ContainsTextMode(t) == \E i \in 0..(Len(t) - 1) : Phrase3At(t, i, "IN", "TEXT", "MODE")
ContainsBinaryMode(t) == \E i \in 0..(Len(t) - 1) : Phrase3At(t, i, "IN", "BINARY", "MODE")
ContainsModeClause(t) == ContainsTextMode(t) \/ ContainsBinaryMode(t)

\* the whole word ENCODING, whitespace, and a character that is not whitespace
ContainsEncodingClause(t) ==
    \E i \in 0..(Len(t) - 1) :
        /\ WordBoundary(t, i)
        /\ LitAt(t, i, "ENCODING")
        /\ WordBoundary(t, i + 8)
        /\ \E a \in (i + 9)..(Len(t) - 1) :
              AllSpaces(t, i + 8, a) /\ ~IsSpace(CharAt(t, a))

ContainsPeriod(t) == \E k \in 0..(Len(t) - 1) : CharAt(t, k) = "."

\* the statement the last iteration matched (after ScanStmt)
LastStmt == Slice(src, stmt_start, stmt_end)
\* the findings a step appended
Appended == SubSeq(findings', Len(findings) + 1, Len(findings'))
AppendsOnly == Len(findings') >= Len(findings) /\ SubSeq(findings', 1, Len(findings)) = findings

(***************************************************************************)
(* C1: an iteration whose statement has no mode clause (neither IN TEXT    *)
(* MODE nor IN BINARY MODE) appends exactly one finding, of kind           *)
(* OpenDatasetNoMode, and no OpenDatasetTextNoEncoding finding, whether or *)
(* not the statement has an ENCODING clause.                               *)
(***************************************************************************)
C1_NoModeOneFinding ==
    [][(ScanStmt /\ ~ContainsModeClause(LastStmt'))
         => /\ AppendsOnly
            /\ Len(Appended) = 1
            /\ Appended[1].issues_type = "OpenDatasetNoMode"]_vars

C1_Witness ==
    /\ pc = "loop"
    /\ pos = stmt_end
    /\ pos > 0
    /\ ~ContainsModeClause(LastStmt)
    /\ ContainsEncodingClause(LastStmt)
    /\ Len(findings) = 1
    /\ findings[1].issues_type = "OpenDatasetNoMode"

(***************************************************************************)
(* C2: an iteration whose statement has a mode clause appends exactly one  *)
(* finding, of kind OpenDatasetTextNoEncoding, when the statement has IN   *)
(* TEXT MODE and no ENCODING clause, and appends nothing otherwise; an     *)
(* OpenDatasetTextNoEncoding finding is appended for no other statement.   *)
(***************************************************************************)
C2_TextNoEncoding ==
    [][ScanStmt
         => /\ AppendsOnly
            /\ ContainsModeClause(LastStmt')
                 => IF ContainsTextMode(LastStmt') /\ ~ContainsEncodingClause(LastStmt')
                    THEN /\ Len(Appended) = 1
                         /\ Appended[1].issues_type = "OpenDatasetTextNoEncoding"
                    ELSE Appended = <<>>
            /\ (\E k \in 1..Len(Appended) :
                    Appended[k].issues_type = "OpenDatasetTextNoEncoding")
                 => /\ ContainsTextMode(LastStmt')
                    /\ ~ContainsEncodingClause(LastStmt')]_vars

C2_Witness ==
    /\ pc = "loop"
    /\ pos = stmt_end
    /\ pos > 0
    /\ ContainsTextMode(LastStmt)
    /\ ~ContainsEncodingClause(LastStmt)
    /\ Len(findings) = 1
    /\ findings[1].issues_type = "OpenDatasetTextNoEncoding"

(***************************************************************************)
(* C3: a unit whose code is the one statement OPEN DATASET X IN BINARY     *)
(* MODE. or OPEN DATASET X IN TEXT MODE ENCODING UTF-8. is returned with   *)
(* zero findings.                                                          *)
(***************************************************************************)
AllOperands == Operands \cup LongOperands
BinaryForm(x) == "OPEN DATASET " \o x \o " IN BINARY MODE."
TextEncodedForm(x) == "OPEN DATASET " \o x \o " IN TEXT MODE ENCODING UTF-8."
ScanReturned == pc = "returned" /\ endpoint = "single" /\ nreq = 1

\* C3 as claimed: zero findings for any operand text X
C3_AnyOperand ==
    (/\ ScanReturned
     /\ \E x \in AllOperands : src \in {BinaryForm(x), TextEncodedForm(x)})
      => heap[res].findings = Some(<<>>)

\* C3 amended: zero findings when X holds no period and, in the BINARY form,
\* no IN TEXT MODE clause
C3_PeriodFreeOperand ==
    (/\ ScanReturned
     /\ \E x \in AllOperands :
           /\ ~ContainsPeriod(x)
           /\ \/ src = BinaryForm(x) /\ ~ContainsTextMode(x)
              \/ src = TextEncodedForm(x))
      => heap[res].findings = Some(<<>>)

C3_Witness ==
    /\ ScanReturned
    /\ src = BinaryForm("lv_file FOR INPUT")
    /\ pos = Len(src)
    /\ heap[res].findings = Some(<<>>)

(***************************************************************************)
(* C4: a finding's starting_line is the unit's start_line (0 when absent)  *)
(* plus the number of newlines before the match start plus 1, and its      *)
(* ending_line is its starting_line plus the number of newlines of the     *)
(* unescaped snippet plus 1; start_line 10 and code "A.\nOPEN DATASET      *)
(* F.\n" give starting_line 12.                                            *)
(***************************************************************************)
NewlinesBefore(text, s) == Cardinality({j \in 0..(s - 1) : CharAt(text, j) = "\n"})

\* the lines of text that hold text[s:e]: from after the last newline before s
\* to before the first newline at or after e
LineSpan(text, s, e) ==
    LET a == CHOOSE a \in 0..s :
                /\ (a = 0 \/ CharAt(text, a - 1) = "\n")
                /\ \A k \in a..(s - 1) : CharAt(text, k) # "\n"
        b == CHOOSE b \in e..Len(text) :
                /\ (b = Len(text) \/ CharAt(text, b) = "\n")
                /\ \A k \in e..(b - 1) : CharAt(text, k) # "\n"
    IN  [from |-> a, to |-> b, text |-> Slice(text, a, b)]

StartLineOrZero(u) == IF u.start_line = None THEN 0 ELSE u.start_line[1]

C4_Example ==
    (/\ ScanReturned
     /\ heap[unit].start_line = Some(10)
     /\ heap[unit].code = Some("A.\nOPEN DATASET F.\n"))
      => /\ Len(findings) = 1
         /\ findings[1].starting_line = 12

\* C4: every appended finding has the line numbers of the formula above, and
\* the example unit's finding starts at line 12
C4_LineNumbers ==
    /\ [][ScanStmt
            => \A k \in 1..Len(Appended) :
                  LET f == Appended[k]
                      raw == LineSpan(src, stmt_start', stmt_end').text
                  IN  /\ f.starting_line =
                            StartLineOrZero(heap[unit]) + NewlinesBefore(src, stmt_start') + 1
                      /\ f.ending_line = f.starting_line + (CountNewlines(raw) + 1)]_vars
    /\ []C4_Example

C4_Witness ==
    /\ ScanReturned
    /\ heap[unit].start_line = Some(10)
    /\ heap[unit].code = Some("A.\nOPEN DATASET F.\n")
    /\ heap[res].findings[1][1].starting_line = 12
    /\ heap[res].findings[1][1].ending_line = 13

(***************************************************************************)
(* C5: no step changes a unit that exists; scan_unit returns a new unit    *)
(* with the input's identity fields, start_line, end_line and code and     *)
(* with findings set to the computed list.                                 *)
(***************************************************************************)
CopiedFields == {"pgm_name", "inc_name", "type", "name", "start_line", "end_line", "code"}

\* C5: existing units never change, and the returned unit is a new object
\* copying the input with findings set
C5_InputNotMutated ==
    [][/\ \A o \in 1..Len(heap) : o <= Len(heap') /\ heap'[o] = heap[o]
       /\ ScanReturn
            => /\ res' \notin 1..Len(heap)
               /\ res' \in 1..Len(heap')
               /\ \A f \in CopiedFields : heap'[res'][f] = heap[unit][f]
               /\ heap'[res'].findings = Some(findings)]_vars

C5_Witness ==
    /\ pc = "returned"
    /\ res # unit
    /\ heap[unit].findings = None
    /\ heap[unit].code # None
    /\ heap[res].code = heap[unit].code
    /\ heap[res].findings = Some(findings)
    /\ findings # <<>>

(***************************************************************************)
(* C6: the array endpoint responds with the scanned units that have at     *)
(* least one finding, in input order, and with no other unit; the single   *)
(* endpoint responds with the scanned unit in every case.                  *)
(***************************************************************************)
\* the scan output of the i-th unit of an array request
OutOf(i) == CHOOSE o \in (Len(units) + 1)..Len(heap) : heap[o].name = heap[units[i]].name

\* C6: the array response is the scanned units with findings, in input order;
\* the single response is the scanned unit
C6_ArrayOmitsClean ==
    /\ (pc = "done" /\ endpoint = "array")
         => LET n == Len(units)
                R == response[1]
                kept == {i \in 1..n : heap[OutOf(i)].findings \notin {None, Some(<<>>)}}
            IN  /\ \A i \in 1..n : /\ heap[OutOf(i)].code = heap[units[i]].code
                                   /\ heap[OutOf(i)].findings # None
                /\ Len(R) = Cardinality(kept)
                /\ \A j \in 1..Len(R) :
                      \E i \in kept : /\ R[j] = OutOf(i)
                                      /\ Cardinality({h \in kept : h < i}) = j - 1
    /\ (pc = "done" /\ endpoint = "single")
         => /\ response = Some(<<res>>)
            /\ res \notin {units[1]}
            /\ heap[res].code = heap[units[1]].code
            /\ heap[res].findings # None

C6_Witness ==
    /\ pc = "done"
    /\ endpoint = "array"
    /\ Len(units) = 3
    /\ heap[OutOf(1)].findings = Some(<<>>)
    /\ heap[OutOf(3)].findings = Some(<<>>)
    /\ Len(response[1]) = 1
    /\ response[1][1] = OutOf(2)
    /\ Len(heap[OutOf(2)].findings[1]) >= 1

(***************************************************************************)
(* C7: the spans come left to right and do not overlap; each starts at a   *)
(* whole-word OPEN, whitespace, DATASET (any case), holds exactly one      *)
(* period, and that period is its last character; so no span starts at an  *)
(* occurrence with no period between it and the end of the text.           *)
(***************************************************************************)
OpeningPhraseAt(text, i) ==
    /\ WordBoundary(text, i)
    /\ LitAt(text, i, "OPEN")
    /\ \E a \in (i + 5)..Len(text) :
          /\ AllSpaces(text, i + 4, a)
          /\ LitAt(text, a, "DATASET")
          /\ WordBoundary(text, a + 7)

PeriodsIn(text, a, b) == Cardinality({k \in a..(b - 1) : CharAt(text, k) = "."})

\* C7: each span starts at or after the previous span's end, at the opening
\* phrase, and holds one period, its last character
C7_Spans ==
    [][ScanStmt
         => /\ stmt_start' >= stmt_end
            /\ stmt_start' < stmt_end'
            /\ stmt_end' <= Len(src)
            /\ OpeningPhraseAt(src, stmt_start')
            /\ PeriodsIn(src, stmt_start', stmt_end') = 1
            /\ CharAt(src, stmt_end' - 1) = "."
            /\ PeriodsIn(src, stmt_start', Len(src)) >= 1]_vars

\* two spans were produced, and an occurrence with no period after it is left
C7_Witness ==
    /\ pc = "returned"
    /\ stmt_start > 0
    /\ STMT_RE_next(src, 0).end <= stmt_start
    /\ \E i \in stmt_end..(Len(src) - 1) :
          OpeningPhraseAt(src, i) /\ PeriodsIn(src, i, Len(src)) = 0

(***************************************************************************)
(* C8: a code with no occurrence, in any case, of the opening keyword      *)
(* phrase (the empty string and an absent code included) is scanned to a   *)
(* unit with an empty findings list; on every code each iteration moves    *)
(* the scan forward within the text, so the scan returns.                  *)
(***************************************************************************)
ContainsOpeningPhrase(text) ==
    \E i \in 0..(Len(text) - 1) :
        /\ LitAt(text, i, "OPEN")
        /\ \E a \in (i + 5)..Len(text) :
              AllSpaces(text, i + 4, a) /\ LitAt(text, a, "DATASET")

CodeText(u) == IF u.code = None THEN "" ELSE u.code[1]

C8_NoPhrase ==
    /\ (pc = "loop" /\ ~ContainsOpeningPhrase(CodeText(heap[unit])))
         => findings = <<>> /\ pos = 0
    /\ (pc = "returned" /\ ~ContainsOpeningPhrase(CodeText(heap[unit])))
         => heap[res].findings = Some(<<>>)

\* C8: no opening phrase, no findings; every iteration advances the scan
C8_NoPhraseNoFindings ==
    /\ []C8_NoPhrase
    /\ [][ScanStmt => pos < pos' /\ pos' <= Len(src)]_vars

C8_Witness ==
    /\ pc = "returned"
    /\ heap[unit].code = None
    /\ heap[res].findings = Some(<<>>)

(***************************************************************************)
(* C9: scanning the unit a scan returned gives the same findings list: the *)
(* findings the input carries are replaced, not added to.                  *)
(***************************************************************************)
C9_Idempotent ==
    (pc = "done" /\ endpoint = "single" /\ nreq >= 2)
      => /\ heap[units[1]].findings # None
         /\ heap[response[1][1]].findings = heap[units[1]].findings

C9_Witness ==
    /\ pc = "done"
    /\ endpoint = "single"
    /\ nreq = 2
    /\ heap[units[1]].findings # None
    /\ Len(heap[units[1]].findings[1]) = 2
    /\ heap[response[1][1]].findings = heap[units[1]].findings

(***************************************************************************)
(* C10: the snippet of a finding is the text from after the last newline   *)
(* before the match start to before the first newline at or after the      *)
(* match end, so it holds the whole statement, with every newline written  *)
(* as backslash and n; the snippet holds no newline.                       *)
(***************************************************************************)
RECURSIVE Unescape(_)
Unescape(s) ==
    IF Len(s) = 0 THEN ""
    ELSE IF Len(s) >= 2 /\ SubSeq(s, 1, 2) = "\\n"
         THEN "\n" \o Unescape(SubSeq(s, 3, Len(s)))
         ELSE SubSeq(s, 1, 1) \o Unescape(SubSeq(s, 2, Len(s)))

\* C10: the snippet is the escaped text of the lines holding the statement
C10_Snippet ==
    [][ScanStmt
         => \A k \in 1..Len(Appended) :
               LET f == Appended[k]
                   span == LineSpan(src, stmt_start', stmt_end')
               IN  /\ span.from <= stmt_start'
                   /\ span.to >= stmt_end'
                   /\ Slice(span.text, stmt_start' - span.from, stmt_end' - span.from)
                        = Slice(src, stmt_start', stmt_end')
                   /\ CountNewlines(f.snippet) = 0
                   /\ Len(f.snippet) = Len(span.text) + CountNewlines(span.text)
                   /\ Unescape(f.snippet) = span.text]_vars

\* a statement over two lines, with other text on its first and last line
C10_Witness ==
    /\ pc = "loop"
    /\ pos = stmt_end
    /\ Len(findings) = 1
    /\ CountNewlines(LastStmt) = 1
    /\ LineSpan(src, stmt_start, stmt_end).to > stmt_end
    /\ Len(findings[1].snippet) = Len(LineSpan(src, stmt_start, stmt_end).text) + 1

====
